---- MODULE Spec2Model ----
(***************************************************************************)
(* fx2eeprom: read and write the EEPROM of an FX2 chip through the vend_ax *)
(* firmware, in chunks of CHUNKSIZE bytes, one vendor control transfer per *)
(* chunk.  The model follows main() of fx2eeprom.c statement by statement; *)
(* the USB library, the device and the two standard streams are the        *)
(* environment, whose answers are drawn from small sets.                   *)
(***************************************************************************)
EXTENDS Integers, Sequences, FiniteSets, TLC

(***************************************************************************)
(* Program constants (fx2eeprom.c:45-52, 78).                              *)
(***************************************************************************)
TRANS_TYPE_READ == 192
TRANS_TYPE_WRITE == 64
EEPROM == 162
TIMEOUT == 1000
LOCATION == 16
CHUNKSIZE == 64
READ == 0
WRITE == 1
DefaultLength == 65536

\* wValue, wIndex and wLength of libusb_control_transfer are uint16_t.
WordSize == 65536

\* A negative libusb result (LIBUSB_ERROR_IO of libusb.h).
LIBUSB_ERROR_IO == -1

\* What an erased EEPROM cell reads as.
ErasedByte == 255

(***************************************************************************)
(* Bounds of the model.                                                    *)
(***************************************************************************)
\* The largest explicit SIZE argument that is enumerated.
MaxLen == 200
\* The longest input stream that is enumerated.
MaxInput == 130

(***************************************************************************)
(* Command-line arguments are strings: sequences of one-character strings. *)
(***************************************************************************)
DigitChars == <<"0", "1", "2", "3", "4", "5", "6", "7", "8", "9">>

\* The value of a character as a digit, 99 for a character that is no digit
\* in any base up to 16.
DigitVal(c) ==
    CASE c = "0" -> 0 [] c = "1" -> 1 [] c = "2" -> 2 [] c = "3" -> 3
      [] c = "4" -> 4 [] c = "5" -> 5 [] c = "6" -> 6 [] c = "7" -> 7
      [] c = "8" -> 8 [] c = "9" -> 9
      [] c \in {"a", "A"} -> 10 [] c \in {"b", "B"} -> 11
      [] c \in {"c", "C"} -> 12 [] c \in {"d", "D"} -> 13
      [] c \in {"e", "E"} -> 14 [] c \in {"f", "F"} -> 15
      [] OTHER -> 99

\* The index just past the longest run of base-`base` digits of s from i on.
RECURSIVE DigitsEnd(_, _, _)
DigitsEnd(s, i, base) ==
    IF i > Len(s) \/ DigitVal(s[i]) >= base THEN i
    ELSE DigitsEnd(s, i + 1, base)

\* The value of the digits s[i..j-1] in base `base`, accumulated left to right.
RECURSIVE DigitsValue(_, _, _, _, _)
DigitsValue(s, i, j, base, acc) ==
    IF i >= j THEN acc
    ELSE DigitsValue(s, i + 1, j, base, acc * base + DigitVal(s[i]))

\* strtoul(s, NULL, 0) picks the base from the prefix: "0x"/"0X" followed by
\* a hexadecimal digit is base 16, another leading "0" is base 8, anything
\* else base 10.
HasHexPrefix(s) ==
    Len(s) >= 3 /\ s[1] = "0" /\ s[2] \in {"x", "X"} /\ DigitVal(s[3]) < 16

StrBase(s) ==
    IF HasHexPrefix(s) THEN 16
    ELSE IF Len(s) >= 1 /\ s[1] = "0" THEN 8
    ELSE 10

StrFirstDigit(s) == IF HasHexPrefix(s) THEN 3 ELSE 1

\* The index just past the part of s that strtoul converts.
StrEnd(s) == DigitsEnd(s, StrFirstDigit(s), StrBase(s))

\* strtoul(s, NULL, 0): the value of the longest numeric prefix, 0 when there
\* is none; the rest of the string is ignored and no error is reported.
\* (The enumerated arguments carry no sign and no leading white space, and
\* their values fit an int, so the conversion unsigned long -> int is exact.)
strtoul(s) == DigitsValue(s, StrFirstDigit(s), StrEnd(s), StrBase(s), 0)

\* The decimal numeral of n, used to write the arguments of a run.
RECURSIVE Dec(_)
Dec(n) ==
    IF n < 10 THEN <<DigitChars[n + 1]>>
    ELSE Append(Dec(n \div 10), DigitChars[(n % 10) + 1])

(***************************************************************************)
(* The runs that are enumerated.                                           *)
(***************************************************************************)
ProgName == <<"f", "x", "2">>
VidArg == <<"0", "x", "0", "4", "b", "4">>
PidArg == <<"0", "x", "1", "0", "0", "4">>

ModeArgs == {<<"r">>, <<"w">>}
OtherModeArgs == {<<"R">>, <<"W">>, <<"x">>, <<>>}

\* SIZE arguments: around the chunk boundaries, 0, and the largest one.
SizeValues ==
    {0, 1, CHUNKSIZE - 1, CHUNKSIZE, CHUNKSIZE + 1, 100, 2 * CHUNKSIZE, MaxLen}
SizeArgs == {Dec(n) : n \in SizeValues} \cup {<<"0", "x", "4", "0">>}

\* ADDRESS arguments: the bottom, the middle and the top of the address space.
AddressValues == {0, 1024, WordSize - 36}
AddressArgs == {Dec(n) : n \in AddressValues}

\* Arguments that are not numerals.
BadNumberArgs == {<<"a", "b", "c">>, <<"1", "O", "2", "4">>, <<>>}

\* argv as a function on 0..argc-1.
MkArgv(args) == [i \in 0 .. Len(args) - 1 |-> args[i + 1]]

ShortVectors ==
    {<<ProgName>>, <<ProgName, <<"r">> >>, <<ProgName, <<"w">>, VidArg>>}

\* Without SIZE only the write run is enumerated: it ends with its input,
\* while the read run moves all DefaultLength bytes in 1024 transfers.
WellFormedVectors ==
    {<<ProgName, <<"w">>, VidArg, PidArg>>}
    \cup {<<ProgName, m, VidArg, PidArg, s>> : m \in ModeArgs, s \in SizeArgs}
    \cup {<<ProgName, m, VidArg, PidArg, s, a>> :
              m \in ModeArgs, s \in SizeArgs, a \in AddressArgs}

OtherModeVectors ==
    {<<ProgName, m, VidArg, PidArg, Dec(100)>> : m \in OtherModeArgs}

MalformedVectors ==
    UNION {{<<ProgName, m, b, PidArg, Dec(100)>>,
            <<ProgName, m, VidArg, b, Dec(100)>>,
            <<ProgName, m, VidArg, PidArg, b>>,
            <<ProgName, m, VidArg, PidArg, Dec(100), b>>} :
               m \in ModeArgs, b \in BadNumberArgs}

ArgVectors ==
    ShortVectors \cup WellFormedVectors \cup OtherModeVectors
        \cup MalformedVectors

\* The input stream of n bytes with byte k (from 1) equal to (seed + k) mod 256.
InputStream(n, seed) == [k \in 1 .. n |-> (seed + k) % 256]

InputLengths == {0, 1, CHUNKSIZE, 100, 2 * CHUNKSIZE, MaxInput}
InputStreams == {InputStream(n, 16) : n \in InputLengths}

\* The EEPROM before the first run: erased, or holding a boot header (a C0
\* load with VID 0x04b4 and PID 0x1004) in its first cells.
BlankEeprom == [loc \in {} |-> ErasedByte]
BootHeader == <<192, 180, 4, 4, 16, 0, 0, 0>>
BootEeprom == [loc \in 0 .. Len(BootHeader) - 1 |-> BootHeader[loc + 1]]
EepromImages == {BlankEeprom, BootEeprom}

\* The runs and inputs enumerated when one run follows another.
PairSizeArgs == {Dec(CHUNKSIZE + 1), Dec(100)}
PairVectors ==
    {<<ProgName, m, VidArg, PidArg, s>> : m \in ModeArgs, s \in PairSizeArgs}
    \cup {<<ProgName, m, VidArg, PidArg, s, Dec(WordSize - 36)>> :
              m \in ModeArgs, s \in PairSizeArgs}
PairStreams == {InputStream(CHUNKSIZE + 1, 32), InputStream(100, 48)}

\* A read run never looks at its input: one stream is enumerated for it.
PairStreamsFor(v) ==
    IF Len(v[2]) >= 1 /\ v[2][1] \in {"w", "W"} THEN PairStreams
    ELSE {InputStream(1, 32)}

(***************************************************************************)
(* State.                                                                  *)
(***************************************************************************)
VARIABLES
    argc, argv,        \* the command line
    stdin,             \* the bytes of standard input not yet consumed
    eeprom,            \* the EEPROM cells written so far: location -> byte
    pc,                \* the position in main()
    mode, vid, pid, length, address, xfer_len, ret, r_count, w_count,
    buffer,            \* the bytes last placed in buffer[], from index 0
    ctx,               \* the libusb context is initialised
    dev,               \* the device handle is open
    claimed,           \* interface 0 is claimed
    calls,             \* the libusb and loader calls made, with their results
    transfers,         \* the EEPROM control transfers issued, in order
    stdout, stderr,    \* what was written to the two output streams
    consumed,          \* the bytes consumed from standard input, in order
    exitCode,          \* the value main() returned
    iterations,        \* how many times the body of the chunk loop was entered
    history            \* the earlier runs against the same device, in order

vars ==
    <<argc, argv, stdin, eeprom, pc, mode, vid, pid, length, address,
      xfer_len, ret, r_count, w_count, buffer, ctx, dev, claimed, calls,
      transfers, stdout, stderr, consumed, exitCode, iterations, history>>

Init ==
    /\ \E v \in ArgVectors :
          /\ argc = Len(v)
          /\ argv = MkArgv(v)
    /\ stdin \in InputStreams
    /\ eeprom \in EepromImages
    /\ pc = "args"
    \* main() assigns mode, vid, pid, length, xfer_len and ret before it
    \* reads them; 0 stands for their indeterminate initial values.
    /\ mode = 0 /\ vid = 0 /\ pid = 0 /\ length = 0
    /\ address = 0 /\ xfer_len = 0 /\ ret = 0
    /\ r_count = 0 /\ w_count = 0
    /\ buffer = <<>>
    /\ ctx = FALSE /\ dev = FALSE /\ claimed = FALSE
    /\ calls = <<>> /\ transfers = <<>>
    /\ stdout = <<>> /\ stderr = <<>> /\ consumed = <<>>
    /\ exitCode = 0
    /\ iterations = 0
    /\ history = <<>>

(***************************************************************************)
(* The device behind libusb_control_transfer: the vend_ax firmware serves  *)
(* request EEPROM by reading or storing bytes from the location in wValue  *)
(* on, its 16-bit address pointer wrapping at the top of the address space.*)
(***************************************************************************)
EepromAt(e, loc) == IF loc \in DOMAIN e THEN e[loc] ELSE ErasedByte

Location(wValue, j) == (wValue + j - 1) % WordSize

\* The n bytes the device returns for a read at wValue.
DeviceRead(e, wValue, n) == [j \in 1 .. n |-> EepromAt(e, Location(wValue, j))]

\* The EEPROM after the device stored the first n bytes of data at wValue.
DeviceWrite(e, wValue, data, n) ==
    LET written == {Location(wValue, j) : j \in 1 .. n}
    IN  [loc \in DOMAIN e \cup written |->
            IF loc \in written
            THEN data[CHOOSE j \in 1 .. n : Location(wValue, j) = loc]
            ELSE e[loc]]

\* The results libusb_control_transfer may give for a request of n bytes:
\* an error, all n bytes, or a short count.
TransferResults(n) == {LIBUSB_ERROR_IO, n, n \div 2}

\* What a control transfer of the given request type does to the EEPROM
\* when it moves r bytes.
EepromAfter(e, type, wValue, data, r) ==
    IF type = TRANS_TYPE_WRITE /\ r > 0 THEN DeviceWrite(e, wValue, data, r)
    ELSE e

\* What a control transfer of the given request type returns in the buffer.
DataReturned(e, type, wValue, r) ==
    IF type = TRANS_TYPE_READ /\ r > 0 THEN DeviceRead(e, wValue, r)
    ELSE <<>>

\* The control transfer as it goes over the wire; the int arguments address
\* and xfer_len are converted to the uint16_t parameters wValue and wLength.
Transfer(type, addr, len, data, r) ==
    [bmRequestType |-> type, bRequest |-> EEPROM, wValue |-> addr % WordSize,
     wIndex |-> LOCATION, wLength |-> len % WordSize, timeout |-> TIMEOUT,
     data |-> data, ret |-> r]

\* The first n bytes of buffer[].  main() only ever sends or prints bytes it
\* stored before; a byte never stored stands as 0.
Prefix(buf, n) == [j \in 1 .. n |-> IF j <= Len(buf) THEN buf[j] ELSE 0]

\* buffer[] after data was stored at its start.
Overlay(buf, data) ==
    [i \in 1 .. (IF Len(buf) > Len(data) THEN Len(buf) ELSE Len(data)) |->
        IF i <= Len(data) THEN data[i] ELSE buf[i]]

(***************************************************************************)
(* main(), one action per statement group.                                 *)
(***************************************************************************)
\* return code;
Return(code) ==
    /\ pc' = "exit"
    /\ exitCode' = code

\* Lines 70-73: fewer than three arguments print the usage text.
CheckArgs ==
    /\ pc = "args"
    /\ IF argc < 4
       THEN /\ stderr' = Append(stderr, <<"usage", argv[0]>>)
            /\ Return(-1)
       ELSE /\ pc' = "parse"
            /\ UNCHANGED <<stderr, exitCode>>
    /\ UNCHANGED <<iterations, history, argc, argv, stdin, eeprom, mode, vid, pid, length, address,
                   xfer_len, ret, r_count, w_count, buffer, ctx, dev, claimed,
                   calls, transfers, stdout, consumed>>

\* A mode test that knows the lower-case letter only.
ModeOf_LowercaseOnly(arg) ==
    IF Len(arg) >= 1 /\ arg[1] = "w" THEN WRITE ELSE READ

\* Line 84: write mode when the first character of argv[1] is 'W' or 'w'
\* (the character of an empty string is its terminating NUL).
ModeOf(arg) ==
    IF Len(arg) >= 1 /\ (arg[1] = "W" \/ arg[1] = "w") THEN WRITE ELSE READ

\* Lines 75-78.
LengthOf(ac, av) == IF ac > 4 THEN strtoul(av[4]) ELSE DefaultLength

\* Lines 79-82.
AddressOf(ac, av) == IF ac > 5 THEN strtoul(av[5]) ELSE 0

\* Lines 75-90.
ParseArgs ==
    /\ pc = "parse"
    /\ length' = LengthOf(argc, argv)
    /\ address' = AddressOf(argc, argv)
    /\ mode' = ModeOf(argv[1])
    /\ vid' = strtoul(argv[2])
    /\ pid' = strtoul(argv[3])
    /\ pc' = "init"
    /\ UNCHANGED <<iterations, history, argc, argv, stdin, eeprom, xfer_len, ret, r_count, w_count,
                   buffer, ctx, dev, claimed, calls, transfers, stdout,
                   stderr, consumed, exitCode>>

\* Lines 93-98.
LibusbInit ==
    /\ pc = "init"
    /\ \E r \in {0, LIBUSB_ERROR_IO} :
          /\ ret' = r
          /\ calls' = Append(calls, <<"libusb_init", r>>)
          /\ IF r < 0
             THEN /\ stderr' = Append(stderr, <<"Unable to init libusb">>)
                  /\ Return(-1)
                  /\ UNCHANGED ctx
             ELSE /\ ctx' = TRUE
                  /\ pc' = "open"
                  /\ UNCHANGED <<stderr, exitCode>>
    /\ UNCHANGED <<iterations, history, argc, argv, stdin, eeprom, mode, vid, pid, length, address,
                   xfer_len, r_count, w_count, buffer, dev, claimed,
                   transfers, stdout, consumed>>

\* Lines 100-105.
OpenDevice ==
    /\ pc = "open"
    /\ \E found \in BOOLEAN :
          /\ calls' = Append(calls,
                            <<"libusb_open_device_with_vid_pid", vid, pid, found>>)
          /\ IF ~found
             THEN /\ stderr' = Append(stderr, <<"Unable to find device">>)
                  /\ Return(-1)
                  /\ UNCHANGED dev
             ELSE /\ dev' = TRUE
                  /\ pc' = "detach"
                  /\ UNCHANGED <<stderr, exitCode>>
    /\ UNCHANGED <<iterations, history, argc, argv, stdin, eeprom, mode, vid, pid, length, address,
                   xfer_len, ret, r_count, w_count, buffer, ctx, claimed,
                   transfers, stdout, consumed>>

\* Lines 107-111: the driver is detached when libusb_kernel_driver_active
\* answers anything but 0 (1, or an error), and only a failing detach ends
\* the run.
DetachKernelDriver ==
    /\ pc = "detach"
    /\ \E active \in {0, 1, LIBUSB_ERROR_IO}, d \in {0, LIBUSB_ERROR_IO} :
          /\ (active = 0) => (d = 0)
          /\ calls' =
                IF active # 0
                THEN calls \o <<<<"libusb_kernel_driver_active", active>>,
                                <<"libusb_detach_kernel_driver", d>>>>
                ELSE Append(calls, <<"libusb_kernel_driver_active", active>>)
          /\ IF active # 0 /\ d # 0
             THEN /\ stderr' = Append(stderr, <<"Unable to detach kernel driver">>)
                  /\ Return(-1)
             ELSE /\ pc' = "claim"
                  /\ UNCHANGED <<stderr, exitCode>>
    /\ UNCHANGED <<iterations, history, argc, argv, stdin, eeprom, mode, vid, pid, length, address,
                   xfer_len, ret, r_count, w_count, buffer, ctx, dev, claimed,
                   transfers, stdout, consumed>>

\* Lines 113-118.
ClaimInterface ==
    /\ pc = "claim"
    /\ \E r \in {0, LIBUSB_ERROR_IO} :
          /\ ret' = r
          /\ calls' = Append(calls, <<"libusb_claim_interface", r>>)
          /\ IF r < 0
             THEN /\ stderr' = Append(stderr, <<"Unable to clain interface">>)
                  /\ Return(-1)
                  /\ UNCHANGED claimed
             ELSE /\ claimed' = TRUE
                  /\ pc' = "load"
                  /\ UNCHANGED <<stderr, exitCode>>
    /\ UNCHANGED <<iterations, history, argc, argv, stdin, eeprom, mode, vid, pid, length, address,
                   xfer_len, r_count, w_count, buffer, ctx, dev, transfers,
                   stdout, consumed>>

\* A load that counts only positive results as failures.
LoadFailed_PositiveOnly(r) == r > 0

\* Line 122.
LoadFailed(r) == r # 0

\* Lines 120-125.
LoadVendax ==
    /\ pc = "load"
    /\ \E r \in {0, LIBUSB_ERROR_IO} :
          /\ ret' = r
          /\ calls' = Append(calls, <<"fx2_load_vendax", r>>)
          /\ IF LoadFailed(r)
             THEN /\ stderr' = Append(stderr,
                                     <<"Error: Failed to load vend_vx firmware">>)
                  /\ Return(-4)
             ELSE /\ pc' = "loop"
                  /\ UNCHANGED <<stderr, exitCode>>
    /\ UNCHANGED <<iterations, history, argc, argv, stdin, eeprom, mode, vid, pid, length, address,
                   xfer_len, r_count, w_count, buffer, ctx, dev, claimed,
                   transfers, stdout, consumed>>

\* Lines 128-134: the size of the next chunk and what remains after it.
XferLen(len) == IF len > CHUNKSIZE THEN CHUNKSIZE ELSE len

\* A last chunk after which length is not set to 0.
Remaining_TailKept(len) == IF len > CHUNKSIZE THEN len - CHUNKSIZE ELSE len

\* A chunk after which length is not reduced.
Remaining_NotReduced(len) == IF len > CHUNKSIZE THEN len ELSE 0

Remaining(len) == IF len > CHUNKSIZE THEN len - CHUNKSIZE ELSE 0

\* An address that advances by the number of bytes the transfer moved.
NextReadAddress_ByCount(addr) == addr + ret'

\* Line 144: the address advances by the chunk size, whatever number of
\* bytes the transfer moved.
NextReadAddress(addr) == addr + CHUNKSIZE

\* A write loop that never advances its address.
NextWriteAddress_Stuck(addr) == addr

\* Line 169: the same in write mode.
NextWriteAddress(addr) == addr + CHUNKSIZE

\* A result check that lets every result pass.
TransferFailed_Ignored(r) == FALSE

\* Lines 139 and 164.
TransferFailed(r) == r < 0

\* A read loop that sends the request type of a write.
ReadRequestType_Write == TRANS_TYPE_WRITE

\* Line 137 and line 162: the request type of each mode's transfer.
ReadRequestType == TRANS_TYPE_READ

WriteRequestType == TRANS_TYPE_WRITE

\* An fwrite of the requested size instead of the returned count.
Fwrite_Requested(out, buf, n) == out \o Prefix(buf, xfer_len)

\* Line 146: fwrite(buffer, 1, ret, stdout) appends the first n bytes of the
\* buffer to the output stream.
Fwrite(out, buf, n) == out \o Prefix(buf, n)

\* Line 148: fread(buffer, 1, xfer_len, stdin) delivers the next n bytes of
\* the stream, fewer only when the stream ends.
FreadCount(in, n) == IF Len(in) < n THEN Len(in) ELSE n

\* The test of line 150 with the argument count off by one, either way.
ExactSize_WithAddressOnly(ac) == ac > 5

ExactSize_Always(ac) == ac > 3

\* Line 150: an explicit SIZE asks for an exact number of bytes.
ExactSize(ac) == ac > 4

\* Lines 127-134 and the dispatch of line 136.
NextChunk ==
    /\ pc = "loop"
    /\ IF length # 0
       THEN /\ xfer_len' = XferLen(length)
            /\ length' = Remaining(length)
            /\ iterations' = iterations + 1
            /\ pc' = IF mode = READ THEN "read" ELSE "fread"
       ELSE /\ pc' = "report"
            /\ UNCHANGED <<xfer_len, length, iterations>>
    /\ UNCHANGED <<history, argc, argv, stdin, eeprom, mode, vid, pid, address,
                   ret, r_count, w_count, buffer, ctx, dev, claimed, calls,
                   transfers, stdout, stderr, consumed, exitCode>>

\* Lines 137-146.
ReadChunk ==
    /\ pc = "read"
    /\ \E r \in TransferResults(xfer_len) :
          LET type == ReadRequestType
              sent == Prefix(buffer, xfer_len)
              data == DataReturned(eeprom, type, address % WordSize, r)
              xfer == Transfer(type, address, xfer_len,
                               IF type = TRANS_TYPE_READ THEN data ELSE sent, r)
              buf  == Overlay(buffer, data)
          IN  /\ ret' = r
              /\ transfers' = Append(transfers, xfer)
              /\ eeprom' = EepromAfter(eeprom, type, address % WordSize, sent, r)
              /\ buffer' = buf
              /\ IF TransferFailed(r)
                 THEN /\ stderr' = Append(stderr, <<"Unable to control transfer">>)
                      /\ Return(-1)
                      /\ UNCHANGED <<address, r_count, w_count, stdout>>
                 ELSE /\ address' = NextReadAddress(address)
                      /\ r_count' = r_count + r
                      /\ stdout' = Fwrite(stdout, buf, r)
                      /\ w_count' = w_count + (Len(stdout') - Len(stdout))
                      /\ pc' = "loop"
                      /\ UNCHANGED <<stderr, exitCode>>
    /\ UNCHANGED <<iterations, history, argc, argv, stdin, mode, vid, pid, length, xfer_len,
                   ctx, dev, claimed, calls, consumed>>

\* Lines 148-160.
FreadChunk ==
    /\ pc = "fread"
    /\ LET n    == FreadCount(stdin, xfer_len)
           data == SubSeq(stdin, 1, n)
       IN  /\ ret' = n
           /\ buffer' = Overlay(buffer, data)
           /\ stdin' = SubSeq(stdin, n + 1, Len(stdin))
           /\ consumed' = consumed \o data
           /\ IF n < xfer_len
              THEN IF ExactSize(argc)
                   THEN /\ stderr' = Append(stderr,
                               <<"Wrong size from stdin - expected %d, got %d",
                                 xfer_len, r_count>>)
                        /\ Return(-1)
                        /\ UNCHANGED <<xfer_len, r_count>>
                   ELSE IF n = 0
                        THEN /\ pc' = "report"
                             /\ UNCHANGED <<xfer_len, r_count, stderr, exitCode>>
                        ELSE /\ xfer_len' = n
                             /\ r_count' = r_count + n
                             /\ pc' = "write"
                             /\ UNCHANGED <<stderr, exitCode>>
              ELSE /\ r_count' = r_count + n
                   /\ pc' = "write"
                   /\ UNCHANGED <<xfer_len, stderr, exitCode>>
    /\ UNCHANGED <<iterations, history, argc, argv, eeprom, mode, vid, pid, length, address,
                   w_count, ctx, dev, claimed, calls, transfers, stdout>>

\* Lines 162-170.
WriteChunk ==
    /\ pc = "write"
    /\ \E r \in TransferResults(xfer_len) :
          LET type == WriteRequestType
              sent == Prefix(buffer, xfer_len)
              data == DataReturned(eeprom, type, address % WordSize, r)
              xfer == Transfer(type, address, xfer_len,
                               IF type = TRANS_TYPE_READ THEN data ELSE sent, r)
          IN  /\ ret' = r
              /\ transfers' = Append(transfers, xfer)
              /\ eeprom' = EepromAfter(eeprom, type, address % WordSize, sent, r)
              /\ buffer' = Overlay(buffer, data)
              /\ IF TransferFailed(r)
                 THEN /\ stderr' = Append(stderr, <<"Unable to control transfer">>)
                      /\ Return(-1)
                      /\ UNCHANGED <<address, w_count>>
                 ELSE /\ address' = NextWriteAddress(address)
                      /\ w_count' = w_count + r
                      /\ pc' = "loop"
                      /\ UNCHANGED <<stderr, exitCode>>
    /\ UNCHANGED <<iterations, history, argc, argv, stdin, mode, vid, pid, length, xfer_len,
                   r_count, ctx, dev, claimed, calls, stdout, consumed>>

\* A report of a write run that prints the two counters the wrong way round.
Report_CountsSwapped ==
    /\ pc = "report"
    /\ stderr' =
          IF mode = READ
          THEN stderr \o <<<<"Read %d bytes from EEPROM", r_count>>,
                           <<"Wrote %d bytes to stdout", w_count>>>>
          ELSE stderr \o <<<<"Read %d bytes from stdin", w_count>>,
                           <<"Wrote %d bytes to EEPROM", r_count>>>>
    /\ dev' = FALSE
    /\ ctx' = FALSE
    /\ Return(0)
    /\ UNCHANGED <<iterations, history, argc, argv, stdin, eeprom, mode, vid, pid, length,
                   address, xfer_len, ret, r_count, w_count, buffer, claimed,
                   calls, transfers, stdout, consumed>>

\* Lines 174-185: the two counters are reported, the handle is closed and
\* the library context torn down; libusb_release_interface is not called.
Report ==
    /\ pc = "report"
    /\ stderr' =
          IF mode = READ
          THEN stderr \o <<<<"Read %d bytes from EEPROM", r_count>>,
                           <<"Wrote %d bytes to stdout", w_count>>>>
          ELSE stderr \o <<<<"Read %d bytes from stdin", r_count>>,
                           <<"Wrote %d bytes to EEPROM", w_count>>>>
    /\ dev' = FALSE
    /\ ctx' = FALSE
    /\ Return(0)
    /\ UNCHANGED <<iterations, history, argc, argv, stdin, eeprom, mode, vid, pid, length,
                   address, xfer_len, ret, r_count, w_count, buffer, claimed,
                   calls, transfers, stdout, consumed>>

Next ==
    \/ CheckArgs
    \/ ParseArgs
    \/ LibusbInit
    \/ OpenDevice
    \/ DetachKernelDriver
    \/ ClaimInterface
    \/ LoadVendax
    \/ NextChunk
    \/ ReadChunk
    \/ FreadChunk
    \/ WriteChunk
    \/ Report

Spec == Init /\ [][Next]_vars

(***************************************************************************)
(* Two runs of the tool, one after the other, against the same device.     *)
(***************************************************************************)
\* What a finished run leaves behind.
RunRecord ==
    [argc |-> argc, argv |-> argv, input |-> consumed \o stdin,
     calls |-> calls, transfers |-> transfers, stdout |-> stdout,
     stderr |-> stderr, exitCode |-> exitCode, eeprom |-> eeprom]

InitPair ==
    /\ \E v \in PairVectors :
          /\ argc = Len(v)
          /\ argv = MkArgv(v)
          /\ stdin \in PairStreamsFor(v)
    /\ eeprom = BootEeprom
    /\ pc = "args"
    /\ mode = 0 /\ vid = 0 /\ pid = 0 /\ length = 0
    /\ address = 0 /\ xfer_len = 0 /\ ret = 0
    /\ r_count = 0 /\ w_count = 0
    /\ buffer = <<>>
    /\ ctx = FALSE /\ dev = FALSE /\ claimed = FALSE
    /\ calls = <<>> /\ transfers = <<>>
    /\ stdout = <<>> /\ stderr = <<>> /\ consumed = <<>>
    /\ exitCode = 0
    /\ iterations = 0
    /\ history = <<>>

\* The tool is started again once the first run has ended: a new process,
\* with new arguments and streams; only the EEPROM keeps its contents.
SecondRun ==
    /\ pc = "exit"
    /\ history = <<>>
    /\ history' = Append(history, RunRecord)
    /\ \E v \in PairVectors :
          /\ argc' = Len(v)
          /\ argv' = MkArgv(v)
          /\ stdin' \in PairStreamsFor(v)
    /\ pc' = "args"
    /\ mode' = 0 /\ vid' = 0 /\ pid' = 0 /\ length' = 0
    /\ address' = 0 /\ xfer_len' = 0 /\ ret' = 0
    /\ r_count' = 0 /\ w_count' = 0
    /\ buffer' = <<>>
    /\ ctx' = FALSE /\ dev' = FALSE /\ claimed' = FALSE
    /\ calls' = <<>> /\ transfers' = <<>>
    /\ stdout' = <<>> /\ stderr' = <<>> /\ consumed' = <<>>
    /\ exitCode' = 0
    /\ iterations' = 0
    /\ UNCHANGED eeprom

NextPair ==
    \/ CheckArgs
    \/ ParseArgs
    \/ LibusbInit
    \/ OpenDevice
    \/ DetachKernelDriver
    \/ ClaimInterface
    \/ LoadVendax
    \/ NextChunk
    \/ ReadChunk
    \/ FreadChunk
    \/ WriteChunk
    \/ Report
    \/ SecondRun

SpecPair == InitPair /\ [][NextPair]_vars

(***************************************************************************)
(* Properties.                                                             *)
(***************************************************************************)
Min(a, b) == IF a < b THEN a ELSE b

\* The number of chunks of n bytes: ceil(n / CHUNKSIZE).
Chunks(n) == (n + CHUNKSIZE - 1) \div CHUNKSIZE

\* The request of the current run, as its command line states it.
RunIsRead == argc >= 4 /\ ModeOf(argv[1]) = READ
RunIsWrite == argc >= 4 /\ ModeOf(argv[1]) = WRITE
ReqLength == LengthOf(argc, argv)
ReqAddress == AddressOf(argc, argv)

\* All of standard input, consumed or not.
Input == consumed \o stdin

Exited == pc = "exit"
Succeeded == pc = "exit" /\ exitCode = 0
LastError == IF stderr = <<>> THEN <<"">> ELSE stderr[Len(stderr)]
SizeMismatch ==
    pc = "exit" /\ LastError[1] = "Wrong size from stdin - expected %d, got %d"

\* The device session is open and the helper firmware loaded: the chunk
\* loop has been entered.
SessionReady ==
    calls # <<>> /\ calls[Len(calls)] = <<"fx2_load_vendax", 0>>

NoneFailed(ts) == \A i \in 1 .. Len(ts) : ts[i].ret >= 0
AllFull(ts) == \A i \in 1 .. Len(ts) : ts[i].ret = ts[i].wLength

\* The sum of the byte counts the transfers returned.
RECURSIVE SumRet(_)
SumRet(ts) ==
    IF ts = <<>> THEN 0
    ELSE SumRet(SubSeq(ts, 1, Len(ts) - 1))
            + (IF ts[Len(ts)].ret >= 0 THEN ts[Len(ts)].ret ELSE 0)

\* C1: a read run of length in [1, 65536] from startAddress in [0, 65535]
\* in which no transfer fails issues exactly ceil(length/64) read transfers,
\* the i-th (from 0) carrying address startAddress + 64*i and requested size
\* min(64, length - 64*i).
C1_ReadTransfers ==
    (Succeeded /\ RunIsRead /\ ReqLength \in 1 .. DefaultLength
        /\ ReqAddress \in 0 .. WordSize - 1)
    => /\ Len(transfers) = Chunks(ReqLength)
       /\ \A i \in 1 .. Len(transfers) :
             /\ transfers[i].bmRequestType = TRANS_TYPE_READ
             /\ transfers[i].wValue = ReqAddress + CHUNKSIZE * (i - 1)
             /\ transfers[i].wLength =
                    Min(CHUNKSIZE, ReqLength - CHUNKSIZE * (i - 1))

\* The same with the address taken modulo 2^16, as the 16-bit value field
\* carries it: this is what the transfers of a read run are.
ReadTransfersWrapped ==
    (Succeeded /\ RunIsRead /\ ReqLength \in 1 .. DefaultLength
        /\ ReqAddress \in 0 .. WordSize - 1)
    => /\ Len(transfers) = Chunks(ReqLength)
       /\ \A i \in 1 .. Len(transfers) :
             /\ transfers[i].bmRequestType = TRANS_TYPE_READ
             /\ transfers[i].wValue =
                    (ReqAddress + CHUNKSIZE * (i - 1)) % WordSize
             /\ transfers[i].wLength =
                    Min(CHUNKSIZE, ReqLength - CHUNKSIZE * (i - 1))

\* Every transfer issued so far is a full write of CHUNKSIZE bytes.
OnlyFullWrites ==
    \A i \in 1 .. Len(transfers) :
        /\ transfers[i].bmRequestType = TRANS_TYPE_WRITE
        /\ transfers[i].wLength = CHUNKSIZE
        /\ transfers[i].data =
               SubSeq(Input, CHUNKSIZE * (i - 1) + 1, CHUNKSIZE * i)

ShortInputRun == RunIsWrite /\ argc > 4 /\ Len(Input) < ReqLength

\* C2 as stated: a write run with explicit length whose input holds fewer
\* bytes than length ends with the size-mismatch error and a non-zero
\* status, having transferred the full chunks before the incomplete one
\* and nothing for the incomplete one.
C2_ShortInputIsSizeMismatch ==
    (Exited /\ ShortInputRun /\ SessionReady)
    => /\ SizeMismatch
       /\ exitCode # 0
       /\ Len(transfers) = Len(Input) \div CHUNKSIZE
       /\ OnlyFullWrites

\* C2 amended: the run always ends with a non-zero status and has issued
\* only full-chunk writes, none of them for the incomplete chunk; it ends
\* with the size-mismatch error, all full chunks transferred, unless a
\* control transfer failed first.
C2_ShortInputFails ==
    ShortInputRun
    => /\ OnlyFullWrites
       /\ Len(transfers) <= Len(Input) \div CHUNKSIZE
       /\ Exited => exitCode # 0
       /\ (Exited /\ SessionReady /\ NoneFailed(transfers))
          => /\ SizeMismatch
             /\ Len(transfers) = Len(Input) \div CHUNKSIZE

C2_Witness ==
    /\ ShortInputRun /\ SizeMismatch
    /\ Len(transfers) = 1 /\ Len(Input) = 100 /\ ReqLength = 2 * CHUNKSIZE

\* C3: a write run without SIZE on an input of n bytes, no transfer
\* failing, issues floor(n/64) full transfers, then one of n mod 64 bytes at
\* 64*floor(n/64) when n is no multiple of 64, nothing after it, and exits
\* with status 0.
C3_DefaultLengthWrite ==
    (Exited /\ RunIsWrite /\ argc = 4 /\ SessionReady
        /\ NoneFailed(transfers))
    => /\ exitCode = 0
       /\ Len(transfers) = Chunks(Len(Input))
       /\ \A i \in 1 .. Len(transfers) :
             /\ transfers[i].bmRequestType = TRANS_TYPE_WRITE
             /\ transfers[i].wValue = ReqAddress + CHUNKSIZE * (i - 1)
             /\ transfers[i].wLength =
                    Min(CHUNKSIZE, Len(Input) - CHUNKSIZE * (i - 1))
             /\ transfers[i].data =
                    SubSeq(Input, CHUNKSIZE * (i - 1) + 1,
                           Min(CHUNKSIZE * i, Len(Input)))

C3_Witness ==
    /\ Succeeded /\ RunIsWrite /\ argc = 4 /\ Len(Input) = 100
    /\ Len(transfers) = 2
    /\ transfers[2].wValue = CHUNKSIZE /\ transfers[2].wLength = 36

\* C4: whenever the run has ended, the interface is released, the device
\* handle closed and the library context torn down.
C4_ReleasedOnEveryExit ==
    Exited => (~claimed /\ ~dev /\ ~ctx)

\* C5: a control transfer with a negative result is the last one of the
\* run, the run has ended with a non-zero status, and the output stream
\* holds the bytes of the chunks before it and nothing of the failed chunk.
C5_FailedTransferAborts ==
    \A i \in 1 .. Len(transfers) :
        transfers[i].ret < 0
        => /\ i = Len(transfers)
           /\ pc = "exit"
           /\ exitCode # 0
           /\ Len(stdout) =
                 IF mode = READ THEN SumRet(SubSeq(transfers, 1, i - 1)) ELSE 0

C5_Witness ==
    /\ Len(transfers) = 3 /\ transfers[3].ret < 0 /\ Exited
    /\ mode = READ /\ Len(stdout) = 2 * CHUNKSIZE

\* The calls of a run that reached its first transfer, the query for an
\* active kernel driver having answered `active`.
SetupCalls(active) ==
    <<<<"libusb_init", 0>>,
      <<"libusb_open_device_with_vid_pid", vid, pid, TRUE>>>>
    \o (IF active # 0
        THEN <<<<"libusb_kernel_driver_active", active>>,
               <<"libusb_detach_kernel_driver", 0>>>>
        ELSE <<<<"libusb_kernel_driver_active", 0>>>>)
    \o <<<<"libusb_claim_interface", 0>>, <<"fx2_load_vendax", 0>>>>

CallFailed(c) ==
    CASE c[1] = "libusb_open_device_with_vid_pid" -> ~c[4]
      [] c[1] = "libusb_kernel_driver_active" -> FALSE
      [] c[1] \in {"libusb_detach_kernel_driver", "fx2_load_vendax"} -> c[2] # 0
      [] OTHER -> c[2] < 0

SetupFailed == \E i \in 1 .. Len(calls) : CallFailed(calls[i])

\* C6: a control transfer is issued only after libusb_init, the device
\* open, the detach of an active kernel driver, the claim of interface 0 and
\* the firmware load have succeeded, in this order; a run in which one of
\* them fails ends with a non-zero status and no transfer.
C6_SetupBeforeTransfers ==
    /\ transfers # <<>>
       => calls \in {SetupCalls(a) : a \in {0, 1, LIBUSB_ERROR_IO}}
    /\ SetupFailed => (Exited /\ exitCode # 0 /\ transfers = <<>>)

C6_Witness ==
    /\ Len(transfers) = 2 /\ calls = SetupCalls(1)

\* An argument that strtoul converts as a whole.
IsNumeral(s) == StrEnd(s) > StrFirstDigit(s) /\ StrEnd(s) = Len(s) + 1

BadArguments ==
    \/ argc < 4
    \/ \E i \in 2 .. argc - 1 : ~IsNumeral(argv[i])

\* C7: with fewer than three arguments, or a VID, PID, SIZE or ADDRESS that
\* is no number, no library or device call is made, and the run ends with
\* the usage text and a non-zero status.
C7_BadArgumentsAreUsageErrors ==
    BadArguments
    => /\ calls = <<>>
       /\ transfers = <<>>
       /\ Exited => (exitCode # 0 /\ LastError[1] = "usage")

\* C8: in a read run the bytes written to the output stream and the two
\* counters, as kept and as reported, equal the sum of the counts the
\* transfers returned; that is length when every transfer returned its
\* full requested size.
C8_ReadByteCounts ==
    RunIsRead
    => /\ Len(stdout) = SumRet(transfers)
       /\ r_count = SumRet(transfers)
       /\ w_count = SumRet(transfers)
       /\ Succeeded =>
             /\ stderr = <<<<"Read %d bytes from EEPROM", SumRet(transfers)>>,
                           <<"Wrote %d bytes to stdout", SumRet(transfers)>>>>
             /\ AllFull(transfers) => Len(stdout) = ReqLength

C8_Witness ==
    /\ Succeeded /\ RunIsRead /\ Len(transfers) = 4
    /\ ~AllFull(transfers) /\ Len(stdout) = 3 * CHUNKSIZE + 4

(***************************************************************************)
(* Properties of two consecutive runs (SpecPair).                          *)
(***************************************************************************)
RecIsRead(h) == h.argc >= 4 /\ ModeOf(h.argv[1]) = READ
RecIsWrite(h) == h.argc >= 4 /\ ModeOf(h.argv[1]) = WRITE
RecLength(h) == LengthOf(h.argc, h.argv)
RecAddress(h) == AddressOf(h.argc, h.argv)
RecReady(h) ==
    h.calls # <<>> /\ h.calls[Len(h.calls)] = <<"fx2_load_vendax", 0>>

\* The setup packets of the transfers, without their data and results.
Wire(ts) ==
    [i \in 1 .. Len(ts) |->
        <<ts[i].bmRequestType, ts[i].bRequest, ts[i].wValue, ts[i].wIndex,
          ts[i].wLength>>]

SameCounts(ts, us) ==
    Len(ts) = Len(us) /\ \A i \in 1 .. Len(ts) : ts[i].ret = us[i].ret

\* The EEPROM as the current run found it (SpecPair starts from BootEeprom).
StartEeprom ==
    IF history = <<>> THEN BootEeprom ELSE history[Len(history)].eeprom

\* A write run of an N-byte input with explicit length N at A, every byte
\* stored, followed by a finished read run of N bytes at A in which every
\* transfer returned its full size.
WriteThenRead ==
    /\ Len(history) = 1
    /\ RecIsWrite(history[1]) /\ history[1].argc > 4
    /\ RecLength(history[1]) >= 1
    /\ Len(history[1].input) = RecLength(history[1])
    /\ history[1].exitCode = 0 /\ AllFull(history[1].transfers)
    /\ Succeeded /\ RunIsRead /\ AllFull(transfers)
    /\ ReqLength = RecLength(history[1])
    /\ ReqAddress = RecAddress(history[1])

\* C9: reading N bytes at A after writing an N-byte input at A, against a
\* device that stores every byte and returns full chunks, emits the input.
C9_RoundTrip == WriteThenRead => stdout = history[1].input

C9_Witness ==
    /\ WriteThenRead /\ stdout = history[1].input
    /\ ReqLength = 100 /\ ReqAddress = WordSize - 36

\* Two read runs with the same vid, pid, length and address, the second
\* finished, both past the setup of the session.
TwoReads ==
    /\ Len(history) = 1 /\ Exited
    /\ RecIsRead(history[1]) /\ RunIsRead
    /\ RecReady(history[1]) /\ SessionReady
    /\ strtoul(history[1].argv[2]) = vid /\ strtoul(history[1].argv[3]) = pid
    /\ RecLength(history[1]) = ReqLength
    /\ RecAddress(history[1]) = ReqAddress

Max(a, b) == IF a > b THEN a ELSE b

\* A run with at least three arguments and a length in [1, 65536].
ValidLength == argc >= 4 /\ ReqLength \in 1 .. DefaultLength

InBody == pc \in {"read", "fread", "write"}

\* The state of the loop: at its head after `iterations` completed passes,
\* and inside its body, where length is already reduced for the pass.
LoopState ==
    ValidLength
    => /\ pc = "loop"
          => /\ address = ReqAddress + CHUNKSIZE * iterations
             /\ length = Max(0, ReqLength - CHUNKSIZE * iterations)
             /\ Len(transfers) = iterations
       /\ InBody
          => /\ address = ReqAddress + CHUNKSIZE * (iterations - 1)
             /\ length = Max(0, ReqLength - CHUNKSIZE * iterations)
             /\ xfer_len \in 1 .. CHUNKSIZE
       /\ (pc = "loop" \/ InBody) => length \in 0 .. ReqLength
       /\ \A i \in 1 .. Len(transfers) :
             transfers[i].wLength \in 1 .. CHUNKSIZE

\* C11: for length in [1, 65536], after k completed iterations the address
\* is startAddress + 64*k and the remaining length max(0, length - 64*k),
\* whatever the transfers moved; the remaining length stays in [0, length]
\* and never increases, and every requested size is in 1..64.
C11_LoopInvariant ==
    /\ []LoopState
    /\ [][(ValidLength /\ (pc = "loop" \/ InBody)) => length' <= length]_vars

C11_Witness ==
    /\ ValidLength /\ pc = "loop" /\ iterations = 2
    /\ ~AllFull(transfers) /\ length = ReqLength - 2 * CHUNKSIZE
    /\ length > 0

\* A write run with explicit length in [1, 65536] that ended with status 0
\* (so no transfer failed) on an input of at least length bytes.
FullWriteRun ==
    /\ Succeeded /\ RunIsWrite /\ argc > 4
    /\ ReqLength \in 1 .. DefaultLength
    /\ Len(Input) >= ReqLength

\* C12: such a run consumes exactly the first length input bytes and issues
\* ceil(length/64) write transfers at strictly increasing, non-overlapping
\* addresses; input byte k travels in transfer floor(k/64), addressed to
\* EEPROM location startAddress + k.
C12_WriteCoversInput ==
    FullWriteRun
    => /\ consumed = SubSeq(Input, 1, ReqLength)
       /\ Len(transfers) = Chunks(ReqLength)
       /\ \A i \in 1 .. Len(transfers) :
             /\ transfers[i].bmRequestType = TRANS_TYPE_WRITE
             /\ i > 1 => transfers[i].wValue >=
                             transfers[i - 1].wValue + transfers[i - 1].wLength
       /\ \A k \in 0 .. ReqLength - 1 :
             LET t == transfers[(k \div CHUNKSIZE) + 1]
             IN  /\ t.data[(k % CHUNKSIZE) + 1] = Input[k + 1]
                 /\ t.wValue + (k % CHUNKSIZE) = ReqAddress + k

\* The same with the locations taken modulo 2^16 and without the order of
\* the addresses: this is what the transfers of such a write run are.
WriteCoversInputWrapped ==
    FullWriteRun
    => /\ consumed = SubSeq(Input, 1, ReqLength)
       /\ Len(transfers) = Chunks(ReqLength)
       /\ \A i \in 1 .. Len(transfers) :
             transfers[i].bmRequestType = TRANS_TYPE_WRITE
       /\ \A k \in 0 .. ReqLength - 1 :
             LET t == transfers[(k \div CHUNKSIZE) + 1]
             IN  /\ t.data[(k % CHUNKSIZE) + 1] = Input[k + 1]
                 /\ Location(t.wValue, (k % CHUNKSIZE) + 1) =
                        (ReqAddress + k) % WordSize

LastTransferFailed ==
    transfers # <<>> /\ transfers[Len(transfers)].ret < 0

\* C13: for length in [1, 65536] the loop body is entered at most
\* ceil(length/64) times and at most that many transfers are issued; no
\* step before the exit blocks, so the run ends; and the loop is left only
\* with the length consumed, or (write run without SIZE) the input
\* exhausted, or by a failure.
C13_LoopTerminates ==
    ValidLength
    => /\ iterations <= Chunks(ReqLength)
       /\ Len(transfers) <= iterations
       /\ Len(transfers) <= Chunks(ReqLength)
       /\ ~Exited => ENABLED Next
       /\ (pc = "report" \/ Succeeded)
          => \/ length = 0
             \/ RunIsWrite /\ argc = 4 /\ stdin = <<>>
       /\ (Exited /\ SessionReady /\ exitCode # 0)
          => (LastTransferFailed \/ SizeMismatch)

C13_Witness ==
    /\ ValidLength /\ Exited /\ iterations = Chunks(ReqLength)
    /\ iterations = 4 /\ ~AllFull(transfers) /\ exitCode = 0

\* C14: the size-mismatch message carries the requested size of the failing
\* chunk and the count the short read of the input returned for it.
C14_MismatchReportsCounts ==
    SizeMismatch
    => LastError = <<"Wrong size from stdin - expected %d, got %d",
                     xfer_len, ret>>

\* C15: a control transfer that requests fewer than 64 bytes is the last
\* control transfer of its run.
C15_ShortChunkIsLast ==
    \A i \in 1 .. Len(transfers) :
        transfers[i].wLength < CHUNKSIZE => i = Len(transfers)

\* The write run without SIZE on 100 bytes: after its short second chunk
\* the loop is entered once more, and ends on the empty read.
C15_Witness ==
    /\ Succeeded /\ RunIsWrite /\ argc = 4
    /\ Len(transfers) = 2 /\ transfers[2].wLength = 36
    /\ iterations = 3 /\ length # 0

\* C16: for length in [1, 65536] and startAddress in [0, 65535] the address
\* of every chunk that is transferred, startAddress + 64*i, is at most 65535
\* and is what the 16-bit value field carries: no address wraps.
C16_AddressesWithinWord ==
    (ValidLength /\ ReqAddress \in 0 .. WordSize - 1)
    => \A i \in 1 .. Len(transfers) :
          /\ ReqAddress + CHUNKSIZE * (i - 1) <= WordSize - 1
          /\ transfers[i].wValue = ReqAddress + CHUNKSIZE * (i - 1)

\* The mode argument starts with 'w' or 'W'.
ArgSaysWrite == Len(argv[1]) >= 1 /\ argv[1][1] \in {"w", "W"}

ModeIsSet == pc \notin {"args", "parse"}

\* C17: a run whose mode argument does not start with 'w' or 'W' is a read
\* run: it issues no host-to-device transfer, consumes no input and leaves
\* the EEPROM as it was; a write run issues no device-to-host transfer and
\* writes nothing to the output stream.
C17_ModeIsolation ==
    argc >= 4
    => IF ArgSaysWrite
       THEN /\ ModeIsSet => mode = WRITE
            /\ \A i \in 1 .. Len(transfers) :
                  transfers[i].bmRequestType = TRANS_TYPE_WRITE
            /\ stdout = <<>>
       ELSE /\ ModeIsSet => mode = READ
            /\ \A i \in 1 .. Len(transfers) :
                  transfers[i].bmRequestType = TRANS_TYPE_READ
            /\ consumed = <<>>
            /\ eeprom \in EepromImages

C17_Witness ==
    /\ argc >= 4 /\ argv[1] = <<"x">> /\ Succeeded
    /\ Len(transfers) = 2 /\ stdout # <<>> /\ Len(stdin) = MaxInput

\* C18: a write run that ends with status 0 reports as read from the input
\* the number of bytes it consumed, and as written to the EEPROM the sum of
\* the counts its transfers returned; the two are equal when every transfer
\* took its whole payload.
C18_WriteCounters ==
    (Succeeded /\ RunIsWrite)
    => /\ r_count = Len(consumed)
       /\ w_count = SumRet(transfers)
       /\ stderr = <<<<"Read %d bytes from stdin", Len(consumed)>>,
                     <<"Wrote %d bytes to EEPROM", SumRet(transfers)>>>>
       /\ AllFull(transfers) => r_count = w_count

C18_Witness ==
    /\ Succeeded /\ RunIsWrite /\ Len(transfers) = 2
    /\ ~AllFull(transfers) /\ r_count = 100 /\ w_count < r_count

====
